---- MODULE Spec2Model ----
(***************************************************************************)
(* Model of the weather ETL pipeline: the Incremental Loader (src/src/      *)
(* load.py) against the store (src/src/models.py, src/src/db.py), the      *)
(* Normalizer (src/src/transform.py) and the Validator                     *)
(* (src/validate_outputs.py with src/schema_config.py).                    *)
(*                                                                         *)
(* Cell values are tagged records so that text, numbers and nulls can sit  *)
(* in one column, as in a pandas object column:                            *)
(*   Str(s)    text, s a sequence of one-character strings                 *)
(*   Num(n, m) the number n + m/1000, 0 <= m < 1000                        *)
(*   NA        null (None / NaN / pd.NA)                                   *)
(***************************************************************************)
EXTENDS Integers, Sequences, FiniteSets, TLC

\* ------------------------------------------------------------------ bounds
\* Longest input table (rows of the file given to load.py).
MaxRows == 2
\* Rows already persisted when the model starts.
MaxInitStore == 1
\* A new invocation starts only while the store holds fewer rows than this.
MaxStore == 2

\* ------------------------------------------------------------------ values
NA == [t |-> "na", n |-> 0, m |-> 0, s |-> <<>>]
Num(n, m) == [t |-> "num", n |-> n, m |-> m, s |-> <<>>]
Str(s) == [t |-> "str", n |-> 0, m |-> 0, s |-> s]

IsNA(v) == v.t = "na"

Whitespace == {" ", "\t"}

Digit == [c \in {"0", "1", "2", "3", "4", "5", "6", "7", "8", "9"} |->
            CASE c = "0" -> 0 [] c = "1" -> 1 [] c = "2" -> 2 [] c = "3" -> 3
              [] c = "4" -> 4 [] c = "5" -> 5 [] c = "6" -> 6 [] c = "7" -> 7
              [] c = "8" -> 8 [] c = "9" -> 9]

DigitChar == <<"0", "1", "2", "3", "4", "5", "6", "7", "8", "9">>

RECURSIVE LStrip(_)
LStrip(s) == IF s # <<>> /\ Head(s) \in Whitespace THEN LStrip(Tail(s)) ELSE s

RECURSIVE RStrip(_)
RStrip(s) ==
  IF s # <<>> /\ s[Len(s)] \in Whitespace THEN RStrip(SubSeq(s, 1, Len(s) - 1)) ELSE s

\* str.strip(): leading and trailing whitespace removed.
Strip(s) == RStrip(LStrip(s))

\* The powers of ten below 2^31.
Pow10 == <<1, 10, 100, 1000, 10000, 100000, 1000000, 10000000, 100000000, 1000000000>>

\* The number written by the first k digits of s, after acc.
RECURSIVE ParseDigitsTo(_, _, _)
ParseDigitsTo(s, acc, k) ==
  IF k = 0 THEN acc ELSE 10 * ParseDigitsTo(s, acc, k - 1) + Digit[s[k]]

ParseDigits(s, acc) == ParseDigitsTo(s, acc, Len(s))

\* str(n) for a natural number n.
NumDigits(n) == IF n = 0 THEN 1 ELSE Cardinality({k \in 1..Len(Pow10) : n >= Pow10[k]})

NatToStr(n) ==
  [i \in 1..NumDigits(n) |-> DigitChar[((n \div Pow10[NumDigits(n) - i + 1]) % 10) + 1]]

\* The number a text reads as: blanks around it are skipped, then an optional
\* minus sign, digits, and an optional point with up to three digits; any
\* other text is no number (null).
AllDigits(q) == \A i \in 1..Len(q) : q[i] \in DOMAIN Digit

\* fp followed by zeros, three digits in all.
Pad3(fp) == fp \o SubSeq(<<"0", "0", "0">>, 1, 3 - Len(fp))

\* The digits before the point and those after it.
ParseFields(ip, fp) ==
  IF ip # <<>> /\ Len(fp) <= 3 /\ AllDigits(ip) /\ AllDigits(fp)
    THEN Num(ParseDigits(ip, 0), ParseDigits(Pad3(fp), 0))
    ELSE NA

\* Where the first point of u stands; past the end when u has none.
DotAt(u) ==
  CHOOSE i \in 1..(Len(u) + 1) :
    /\ i <= Len(u) => u[i] = "."
    /\ \A j \in 1..(i - 1) : u[j] # "."

SplitAt(u, dot) == ParseFields(SubSeq(u, 1, dot - 1), SubSeq(u, dot + 1, Len(u)))

ParseUnsigned(u) == SplitAt(u, DotAt(u))

\* -v, for a number v; null stays null.
Negate(v) ==
  IF v.t # "num" THEN v
  ELSE IF v.m = 0 THEN Num(-v.n, 0)
  ELSE Num(-v.n - 1, 1000 - v.m)

ParseStripped(d) ==
  IF d # <<>> /\ Head(d) = "-" THEN Negate(ParseUnsigned(Tail(d))) ELSE ParseUnsigned(d)

ParseNumber(s) == ParseStripped(Strip(s))

\* pd.to_numeric(col, errors="coerce"): numbers stay, text that reads as a
\* number (surrounding blanks allowed) is converted, anything else is null.
ToNumeric(v) ==
  CASE v.t = "num" -> v
    [] v.t = "na" -> NA
    [] v.t = "str" -> ParseNumber(v.s)

\* col.astype("string").str.strip(): nulls stay null.
ToStrippedString(v) ==
  CASE v.t = "str" -> Str(Strip(v.s))
    [] v.t = "na" -> NA
    [] v.t = "num" -> Str(NatToStr(v.n))

\* .astype("Int64") accepts a float column only when every value is integral.
IsIntegral(v) == v.t = "na" \/ (v.t = "num" /\ v.m = 0)

\* ------------------------------------------------------- loader: normalize
\* REQUIRED_COLS_SOURCE, as (source name, db field name) pairs in dict order.
REQUIRED_COLS_SOURCE ==
  << <<"city", "city">>, <<"temperature", "temperature_c">>,
     <<"humidity_percent", "humidity_percent">>, <<"timestamp", "timestamp_unix">> >>

REQUIRED_COLS_DB == <<"city", "temperature_c", "humidity_percent", "timestamp_unix">>

SeqToSet(q) == {q[i] : i \in 1..Len(q)}

\* The column a source column is renamed to (itself when not in the map).
RenameCol_Identity(c) == c

RenameCol(c) ==
  IF \E i \in 1..Len(REQUIRED_COLS_SOURCE) : REQUIRED_COLS_SOURCE[i][1] = c
    THEN LET i == CHOOSE j \in 1..Len(REQUIRED_COLS_SOURCE) : REQUIRED_COLS_SOURCE[j][1] = c
         IN REQUIRED_COLS_SOURCE[i][2]
    ELSE c

\* list(df.columns) after df.rename(columns=rename_map).
RenamedCols(cols) == [i \in 1..Len(cols) |-> RenameCol(cols[i])]

\* The first db field absent after renaming, or "" when all are present.
MissingCol(cols) ==
  LET miss == {i \in 1..Len(REQUIRED_COLS_DB) : REQUIRED_COLS_DB[i] \notin SeqToSet(RenamedCols(cols))}
  IN IF miss = {} THEN "" ELSE REQUIRED_COLS_DB[CHOOSE i \in miss : \A j \in miss : i <= j]

\* Renaming produced the same label twice: df["temperature_c"] is then a frame,
\* not a column, and pd.to_numeric raises TypeError.
DuplicateLabel(cols) ==
  \E i, j \in 1..Len(cols) : i # j /\ RenameCol(cols[i]) = RenameCol(cols[j])

\* The value of db field k in a row of the input table.
Cell(cols, row, k) ==
  LET src == CHOOSE c \in SeqToSet(cols) : RenameCol(c) = k IN row[src]

\* One row after the column-wise coercions of lines 61-64.
CoerceRow(cols, row) ==
  [city |-> ToStrippedString(Cell(cols, row, "city")),
   temperature_c |-> ToNumeric(Cell(cols, row, "temperature_c")),
   humidity_percent |-> ToNumeric(Cell(cols, row, "humidity_percent")),
   timestamp_unix |-> ToNumeric(Cell(cols, row, "timestamp_unix"))]

HasRequiredNull(r) ==
  IsNA(r.city) \/ IsNA(r.temperature_c) \/ IsNA(r.humidity_percent) \/ IsNA(r.timestamp_unix)

\* df.dropna(subset=[...]) followed by the casts to Python ints.
DropNA_None(rows) ==
  [i \in 1..Len(rows) |->
     [city |-> rows[i].city.s, temperature_c |-> rows[i].temperature_c,
      humidity_percent |-> rows[i].humidity_percent.n,
      timestamp_unix |-> rows[i].timestamp_unix.n]]

RECURSIVE DropNA(_)
DropNA(rows) ==
  IF rows = <<>> THEN <<>>
  ELSE LET r == Head(rows) IN
       IF HasRequiredNull(r) THEN DropNA(Tail(rows))
       ELSE <<[city |-> r.city.s, temperature_c |-> r.temperature_c,
               humidity_percent |-> r.humidity_percent.n,
               timestamp_unix |-> r.timestamp_unix.n]>> \o DropNA(Tail(rows))

\* The business key of a normalized or persisted row.
Key(r) == <<r.city, r.timestamp_unix>>

Keys(rows) == {Key(rows[i]) : i \in 1..Len(rows)}

\* df.drop_duplicates(subset=["city", "timestamp_unix"]): keep="first".
RECURSIVE DropDuplicates_None(_, _)
DropDuplicates_None(rows, seen) ==
  IF rows = <<>> THEN <<>> ELSE <<Head(rows)>> \o DropDuplicates_None(Tail(rows), seen)

RECURSIVE DropDuplicates(_, _)
DropDuplicates(rows, seen) ==
  IF rows = <<>> THEN <<>>
  ELSE IF Key(Head(rows)) \in seen THEN DropDuplicates(Tail(rows), seen)
  ELSE <<Head(rows)>> \o DropDuplicates(Tail(rows), seen \cup {Key(Head(rows))})

\* normalize(df): the outcome is the cleaned frame, a SystemExit naming the
\* missing field and the available columns, or an uncaught TypeError.
Normalize(tbl) ==
  IF MissingCol(tbl.cols) # "" THEN
    [status |-> "exit", field |-> MissingCol(tbl.cols),
     columns |-> RenamedCols(tbl.cols), df |-> <<>>]
  ELSE IF DuplicateLabel(tbl.cols) THEN
    [status |-> "error", field |-> "", columns |-> <<>>, df |-> <<>>]
  ELSE
    LET co == [i \in 1..Len(tbl.rows) |-> CoerceRow(tbl.cols, tbl.rows[i])] IN
    IF \E i \in 1..Len(co) :
         ~IsIntegral(co[i].humidity_percent) \/ ~IsIntegral(co[i].timestamp_unix)
    THEN [status |-> "error", field |-> "", columns |-> <<>>, df |-> <<>>]
    ELSE [status |-> "ok", field |-> "", columns |-> <<>>,
          df |-> DropDuplicates(DropNA(co), {})]

\* ------------------------------------------------------ loader: the store
\* A WeatherReading row with its storage-assigned id.
Persisted(r, id) ==
  [id |-> id, city |-> r.city, temperature_c |-> r.temperature_c,
   humidity_percent |-> r.humidity_percent, timestamp_unix |-> r.timestamp_unix]

\* fetch_existing_keys(session): the set of (city, timestamp_unix) of all rows.
FetchExistingKeys_First(st) == IF st = <<>> THEN {} ELSE {Key(st[1])}

FetchExistingKeys(st) == {Key(st[i]) : i \in 1..Len(st)}

\* dataframe_to_models(df): one WeatherReading per row, in row order.
DataframeToModels(df) ==
  [i \in 1..Len(df) |->
     [city |-> df[i].city, temperature_c |-> df[i].temperature_c,
      humidity_percent |-> df[i].humidity_percent,
      timestamp_unix |-> df[i].timestamp_unix]]

RECURSIVE FilterNew(_, _)
FilterNew(df, existing) ==
  IF df = <<>> THEN <<>>
  ELSE IF Key(Head(df)) \in existing THEN FilterNew(Tail(df), existing)
  ELSE <<Head(df)>> \o FilterNew(Tail(df), existing)

\* Lines 115-122 of main: what to insert and how many rows were skipped.
SelectNew_NoFilter(df, noSkip, st) ==
  [queried |-> ~noSkip, to_insert |-> df, skipped |-> 0]

SelectNew_SkippedIsNew(df, noSkip, st) ==
  IF noSkip THEN [queried |-> FALSE, to_insert |-> df, skipped |-> 0]
  ELSE LET new == FilterNew(df, FetchExistingKeys(st)) IN
       [queried |-> TRUE, to_insert |-> new, skipped |-> Len(new)]

SelectNew_SkippedIsStored(df, noSkip, st) ==
  IF noSkip THEN [queried |-> FALSE, to_insert |-> df, skipped |-> 0]
  ELSE LET existing == FetchExistingKeys(st) IN
       [queried |-> TRUE, to_insert |-> FilterNew(df, existing),
        skipped |-> Cardinality(existing)]

SelectNew_AlwaysQuery(df, noSkip, st) ==
  LET new == FilterNew(df, FetchExistingKeys(st)) IN
  [queried |-> TRUE, to_insert |-> new, skipped |-> Len(df) - Len(new)]

SelectNew(df, noSkip, st) ==
  IF noSkip THEN [queried |-> FALSE, to_insert |-> df, skipped |-> 0]
  ELSE LET new == FilterNew(df, FetchExistingKeys(st)) IN
       [queried |-> TRUE, to_insert |-> new, skipped |-> Len(df) - Len(new)]

\* session.commit() after bulk_save_objects: INSERTs only, ids autoincrement.
RECURSIVE Upsert(_, _)
Upsert(st, objs) ==
  IF objs = <<>> THEN st
  ELSE LET o == Head(objs)
           hit == {i \in 1..Len(st) : Key(st[i]) = Key(o)} IN
       IF hit = {} THEN Upsert(Append(st, Persisted(o, Len(st) + 1)), Tail(objs))
       ELSE Upsert([i \in 1..Len(st) |-> IF i \in hit THEN Persisted(o, i) ELSE st[i]],
                   Tail(objs))

StoreAppend_Upsert(st, objs) == Upsert(st, objs)

\* A table with a unique constraint on (city, timestamp_unix) that ignores the
\* rows it cannot take; WeatherReading declares no such constraint.
StoreAppend_UniqueKey(st, objs) ==
  LET new == FilterNew(objs, FetchExistingKeys(st)) IN
  st \o [i \in 1..Len(new) |-> Persisted(new[i], Len(st) + i)]

StoreAppend(st, objs) ==
  st \o [i \in 1..Len(objs) |-> Persisted(objs[i], Len(st) + i)]

\* Leaving "with SessionLocal() as session" on an exception closes the session;
\* autocommit=False, so what the transaction wrote is rolled back.
SessionClose_Autocommit(st, written) == StoreAppend(st, written)

SessionClose(st, written) == st

\* ------------------------------------------------------------ loader inputs
\* Column layouts of the file given to load.py: the Normalizer's names, the
\* storage names, one without humidity_percent and timestamp, and one where
\* both "temperature" and "temperature_c" are present.
Layouts ==
  { <<"city", "temperature", "humidity_percent", "timestamp", "fetched_at">>,
    <<"city", "temperature_c", "humidity_percent", "timestamp_unix">>,
    <<"fetched_at", "city", "temperature">>,
    <<"city", "temperature", "temperature_c", "humidity_percent", "timestamp">> }

\* The canonical field a column holds.
FieldOf(c) ==
  CASE c = "temperature_c" -> "temperature"
    [] c = "timestamp_unix" -> "timestamp"
    [] OTHER -> c

\* Rows of input files, by canonical field.
PoolRow(city, temperature, humidity, timestamp) ==
  [city |-> city, temperature |-> temperature, humidity_percent |-> humidity,
   timestamp |-> timestamp, fetched_at |-> Num(1100, 0)]

RowD == PoolRow(Str(<<"D">>), Num(20, 0), Num(67, 0), Num(1000, 0))

\* The key of RowD once the city is trimmed and the timestamp read as a number.
RowDTrim == PoolRow(Str(<<" ", "D">>), Num(85, 500), Num(50, 0), Str(<<"1", "0", "0", "0">>))

RowH == PoolRow(Str(<<"H">>), Num(20, 0), Num(67, 0), Num(1000, 0))

\* Null timestamp after coercion.
RowBadTs == PoolRow(Str(<<"D">>), Num(20, 0), Num(67, 0), Str(<<"x">>))

RowNoCity == PoolRow(NA, Num(20, 0), Num(67, 0), Num(1000, 0))

\* A humidity that is not a whole number.
RowFrac == PoolRow(Str(<<"H">>), Num(20, 0), Num(67, 500), Num(1000, 0))

RowPool == {RowD, RowDTrim, RowH, RowBadTs, RowNoCity, RowFrac}

\* Rows of the files loaded by concurrent invocations.
ConcPool == {RowD, RowH}

SeqsUpTo(S, n) == UNION {[1..k -> S] : k \in 0..n}

\* A pool row as a row of a file with the given columns.
FileRow(cols, r) == [c \in SeqToSet(cols) |-> r[FieldOf(c)]]

TablesOf(L, pool) ==
  UNION {{[cols |-> cols, rows |-> rows] :
            rows \in SeqsUpTo({FileRow(cols, r) : r \in pool}, MaxRows)} :
         cols \in L}

Tables == TablesOf(Layouts, RowPool)

ConcTables ==
  TablesOf({<<"city", "temperature", "humidity_percent", "timestamp", "fetched_at">>}, ConcPool)

\* Rows that may be persisted before the first invocation.
StoredPool ==
  { [city |-> <<"D">>, temperature_c |-> Num(20, 0), humidity_percent |-> 67,
     timestamp_unix |-> 1000],
    [city |-> <<"H">>, temperature_c |-> Num(31, 0), humidity_percent |-> 40,
     timestamp_unix |-> 1000],
    [city |-> <<"D">>, temperature_c |-> Num(22, 0), humidity_percent |-> 60,
     timestamp_unix |-> 2000] }

Stores(n) == {StoreAppend(<<>>, q) : q \in SeqsUpTo(StoredPool, n)}

\* At most one persisted row per business key.
UniqueKeys(st) == \A i, j \in 1..Len(st) : Key(st[i]) = Key(st[j]) => i = j

\* ------------------------------------------------------------------- state
VARIABLES
  store,       \* the weather_readings table: committed rows, in id order
  serialized,  \* TRUE when the store serializes each session's read-then-insert
  lock,        \* the process whose session the store is serving (0: none)
  ld,          \* per loader process: position and locals of main()
  runs,        \* invocations started on the same file (rerun scenario)
  first,       \* printed counts of the first of two runs on the same file
  nz,          \* the Normalizer process: position and locals of transform.main()
  files,       \* the canonical tables written by the Normalizer (CSV, Parquet)
  val,         \* the Validator process: position and locals of validate_outputs.main()
  report       \* data/validation_report.json

loaderVars == <<store, serialized, lock, ld, runs, first>>

nzVars == <<nz, files>>

valVars == <<val, report>>

vars == <<store, serialized, lock, ld, runs, first, nz, files, val, report>>

Procs == {1, 2}

NoOut == [kind |-> "none", total |-> 0, skipped |-> 0, inserted |-> 0,
          field |-> "", columns |-> <<>>]

EmptyTable == [cols |-> <<>>, rows |-> <<>>]

\* A process that is not running.
Idle ==
  [pc |-> "idle", table |-> EmptyTable, noSkip |-> FALSE, df |-> <<>>,
   queried |-> FALSE, to_insert |-> <<>>, skipped |-> 0, inserted |-> 0,
   txn |-> <<>>, written |-> 0, out |-> NoOut, store0 |-> <<>>]

NoFirst == [done |-> FALSE, total |-> 0, skipped |-> 0, inserted |-> 0, store0 |-> <<>>]

\* ----------------------------------------------------------- loader actions
\* The locals of an invocation that has read its file.
Begin(tbl, m, st) ==
  [Idle EXCEPT !.pc = "read", !.table = tbl, !.noSkip = m, !.store0 = st]

\* main, lines 101-111: arguments parsed and the file read.
Start(p, T, Modes) ==
  /\ ld[p].pc = "idle"
  /\ Len(store) < MaxStore
  /\ \E tbl \in T, m \in Modes : ld' = [ld EXCEPT ![p] = Begin(tbl, m, store)]
  /\ UNCHANGED <<store, serialized, lock, runs, first>>
  /\ UNCHANGED <<nzVars, valVars>>

\* read_any: a missing file or an unsupported suffix ends the process.
ReadAnyExit(p) ==
  /\ ld[p].pc = "idle"
  /\ \E k \in {"File not found", "Unsupported file type"} :
       ld' = [ld EXCEPT ![p] = [Idle EXCEPT !.pc = "exited", !.store0 = store,
                                            !.out = [NoOut EXCEPT !.kind = k]]]
  /\ UNCHANGED <<store, serialized, lock, runs, first>>
  /\ UNCHANGED <<nzVars, valVars>>

\* main, line 112: df = normalize(df_raw).
DoNormalize(p) ==
  /\ ld[p].pc = "read"
  /\ LET r == Normalize(ld[p].table) IN
     ld' = [ld EXCEPT ![p] =
              CASE r.status = "ok" -> [@ EXCEPT !.pc = "normalized", !.df = r.df]
                [] r.status = "exit" ->
                     [@ EXCEPT !.pc = "exited",
                               !.out = [NoOut EXCEPT !.kind = "Missing column",
                                                     !.field = r.field,
                                                     !.columns = r.columns]]
                [] r.status = "error" -> [@ EXCEPT !.pc = "crashed"]]
  /\ UNCHANGED <<store, serialized, lock, runs, first>>
  /\ UNCHANGED <<nzVars, valVars>>

\* main, line 114: the session is opened. A serializing store admits one
\* read-then-insert session at a time.
OpenSession(p) ==
  /\ ld[p].pc = "normalized"
  /\ serialized => lock = 0
  /\ lock' = IF serialized THEN p ELSE lock
  /\ ld' = [ld EXCEPT ![p].pc = "session"]
  /\ UNCHANGED <<store, serialized, runs, first>>
  /\ UNCHANGED <<nzVars, valVars>>

\* main, lines 115-122: the existing keys are read (skip-existing mode only)
\* and the new rows computed.
Select(p) ==
  /\ ld[p].pc = "session"
  /\ LET r == SelectNew(ld[p].df, ld[p].noSkip, store) IN
     ld' = [ld EXCEPT ![p].pc = "selected", ![p].queried = r.queried,
                      ![p].to_insert = r.to_insert, ![p].skipped = r.skipped]
  /\ UNCHANGED <<store, serialized, lock, runs, first>>
  /\ UNCHANGED <<nzVars, valVars>>

\* main, lines 124-128: nothing to insert, or every row written in the
\* session's transaction.
BulkSave(p) ==
  /\ ld[p].pc = "selected"
  /\ LET objs == DataframeToModels(ld[p].to_insert) IN
     ld' = IF objs = <<>>
             THEN [ld EXCEPT ![p].pc = "closing", ![p].inserted = 0]
             ELSE [ld EXCEPT ![p].pc = "flushed", ![p].txn = objs,
                             ![p].written = Len(objs)]
  /\ UNCHANGED <<store, serialized, lock, runs, first>>
  /\ UNCHANGED <<nzVars, valVars>>

\* bulk_save_objects raises after k rows were written in the transaction.
BulkSaveFail(p) ==
  /\ ld[p].pc = "selected"
  /\ LET objs == DataframeToModels(ld[p].to_insert) IN
     /\ objs # <<>>
     /\ \E k \in 0..(Len(objs) - 1) :
          ld' = [ld EXCEPT ![p].pc = "failed", ![p].txn = SubSeq(objs, 1, k),
                           ![p].written = k]
  /\ UNCHANGED <<store, serialized, lock, runs, first>>
  /\ UNCHANGED <<nzVars, valVars>>

\* main, lines 129-130: session.commit() makes the transaction's rows visible.
Commit(p) ==
  /\ ld[p].pc = "flushed"
  /\ store' = StoreAppend(store, ld[p].txn)
  /\ ld' = [ld EXCEPT ![p].pc = "closing", ![p].inserted = Len(ld[p].txn),
                      ![p].txn = <<>>]
  /\ UNCHANGED <<serialized, lock, runs, first>>
  /\ UNCHANGED <<nzVars, valVars>>

\* session.commit() raises.
CommitFail(p) ==
  /\ ld[p].pc = "flushed"
  /\ ld' = [ld EXCEPT ![p].pc = "failed"]
  /\ UNCHANGED <<store, serialized, lock, runs, first>>
  /\ UNCHANGED <<nzVars, valVars>>

\* The with block is left normally.
CloseSession(p) ==
  /\ ld[p].pc = "closing"
  /\ lock' = IF lock = p THEN 0 ELSE lock
  /\ ld' = [ld EXCEPT ![p].pc = "closed"]
  /\ UNCHANGED <<store, serialized, runs, first>>
  /\ UNCHANGED <<nzVars, valVars>>

\* The with block is left by an exception: the session is closed and the
\* exception ends the process before anything is printed.
Rollback(p) ==
  /\ ld[p].pc = "failed"
  /\ store' = SessionClose(store, ld[p].txn)
  /\ lock' = IF lock = p THEN 0 ELSE lock
  /\ ld' = [ld EXCEPT ![p].pc = "aborted", ![p].txn = <<>>]
  /\ UNCHANGED <<serialized, runs, first>>
  /\ UNCHANGED <<nzVars, valVars>>

\* main, lines 132-136: the counts are printed.
Report(p) ==
  /\ ld[p].pc = "closed"
  /\ ld' = [ld EXCEPT ![p].pc = "done",
                      ![p].out = [NoOut EXCEPT !.kind = "report",
                                               !.total = Len(ld[p].df),
                                               !.skipped = ld[p].skipped,
                                               !.inserted = ld[p].inserted]]
  /\ UNCHANGED <<store, serialized, lock, runs, first>>
  /\ UNCHANGED <<nzVars, valVars>>

Ended(p) == ld[p].pc \in {"done", "exited", "crashed", "aborted"}

\* The process is gone; the next invocation starts from scratch.
Exit(p) ==
  /\ Ended(p)
  /\ ld' = [ld EXCEPT ![p] = Idle]
  /\ UNCHANGED <<store, serialized, lock, runs, first>>
  /\ UNCHANGED <<nzVars, valVars>>

\* The first of two invocations on the same file.
RunFirst(p) ==
  /\ runs = 0
  /\ ld[p].pc = "idle"
  /\ \E tbl \in Tables, m \in BOOLEAN : ld' = [ld EXCEPT ![p] = Begin(tbl, m, store)]
  /\ runs' = 1
  /\ UNCHANGED <<store, serialized, lock, first>>
  /\ UNCHANGED <<nzVars, valVars>>

\* The same command is run again after the first run printed its counts.
RunAgain(p) ==
  /\ runs = 1
  /\ ld[p].pc = "done"
  /\ first' = [done |-> TRUE, total |-> ld[p].out.total, skipped |-> ld[p].out.skipped,
               inserted |-> ld[p].out.inserted, store0 |-> ld[p].store0]
  /\ ld' = [ld EXCEPT ![p] = Begin(ld[p].table, ld[p].noSkip, store)]
  /\ runs' = 2
  /\ UNCHANGED <<store, serialized, lock>>
  /\ UNCHANGED <<nzVars, valVars>>

\* The steps of one invocation after its start.
Step(p) ==
  \/ DoNormalize(p)
  \/ OpenSession(p)
  \/ Select(p)
  \/ BulkSave(p)
  \/ BulkSaveFail(p)
  \/ Commit(p)
  \/ CommitFail(p)
  \/ CloseSession(p)
  \/ Rollback(p)
  \/ Report(p)

\* ------------------------------------------------ normalizer: clean_weather_df
\* Longest record sequence of a raw document.
MaxRecs == 2

\* The column a raw key is renamed to by rename_map (lines 74-78).
CleanRename(c) ==
  CASE c = "temp" -> "temperature"
    [] c = "humidity" -> "humidity_percent"
    [] OTHER -> c

\* Output columns, in order (lines 103-111).
CanonicalCols ==
  <<"city", "temperature", "humidity_percent", "timestamp", "timestamp_iso",
    "fetched_at", "fetched_at_iso">>

\* Columns of pd.DataFrame(records): the union of the records' keys. A
\* non-dict element contributes no named column.
FrameCols(recs) == UNION {DOMAIN recs[i].rec : i \in 1..Len(recs)}

\* Two raw columns renamed to the same label: df["temperature"] is then a
\* frame and pd.to_numeric raises TypeError.
RenameCollision(recs) ==
  \E c, d \in FrameCols(recs) : c # d /\ CleanRename(c) = CleanRename(d)

\* Cell of canonical column k in the frame row of one record: absent keys and
\* absent columns are null.
RawCell(r, k) ==
  LET src == {c \in DOMAIN r.rec : CleanRename(c) = k} IN
  IF src = {} THEN NA ELSE r.rec[CHOOSE c \in src : TRUE]

\* Series.round(2), on thousandths: half-way cases go to the even hundredth.
Round2_MinusKelvin(v) ==
  IF v.t # "num" THEN v
  ELSE IF v.m >= 150 THEN Num(v.n - 273, v.m - 150)
  ELSE Num(v.n - 274, v.m + 850)

Round2(v) ==
  IF v.t # "num" THEN v
  ELSE LET q == v.m \div 10
           rem == v.m % 10
           up == rem > 5 \/ (rem = 5 /\ q % 2 = 1)
           h == IF up THEN q + 1 ELSE q
       IN IF h = 100 THEN Num(v.n + 1, 0) ELSE Num(v.n, 10 * h)

\* Series.clip(lower=0, upper=100); nulls stay null.
Clip_None(v) == v

Clip(v) ==
  IF v.t # "num" THEN v
  ELSE IF v.n < 0 THEN Num(0, 0)
  ELSE IF v.n > 100 \/ (v.n = 100 /\ v.m > 0) THEN Num(100, 0)
  ELSE v

\* pd.to_datetime(col, unit="s", utc=True, errors="coerce"): the UTC day and
\* the second of that day; null stays null (NaT).
ToDatetime(v) ==
  IF v.t # "num" THEN NA
  ELSE [t |-> "datetime", n |-> v.n \div 86400, m |-> v.n % 86400, s |-> <<>>]

\* Lines 85-96 and 102-113 for one row.
CleanRow(r) ==
  LET ts == ToNumeric(RawCell(r, "timestamp"))
      fa == ToNumeric(RawCell(r, "fetched_at")) IN
  [c \in SeqToSet(CanonicalCols) |->
     CASE c = "city" -> RawCell(r, "city")
       [] c = "temperature" -> Round2(ToNumeric(RawCell(r, "temperature")))
       [] c = "humidity_percent" -> Clip(ToNumeric(RawCell(r, "humidity_percent")))
       [] c = "timestamp" -> ts
       [] c = "timestamp_iso" -> ToDatetime(ts)
       [] c = "fetched_at" -> fa
       [] c = "fetched_at_iso" -> ToDatetime(fa)]

\* The (city, timestamp) pair of a canonical row.
CanonKey(r) == <<r["city"], r["timestamp"]>>

\* df.drop_duplicates(subset=["city", "timestamp"]): keep="first"; nulls match
\* nulls.
RECURSIVE DedupCanon_KeepLast(_, _)
DedupCanon_KeepLast(rows, seen) ==
  IF rows = <<>> THEN <<>>
  ELSE IF \E i \in 2..Len(rows) : CanonKey(rows[i]) = CanonKey(Head(rows))
    THEN DedupCanon_KeepLast(Tail(rows), seen)
    ELSE <<Head(rows)>> \o DedupCanon_KeepLast(Tail(rows), seen)

RECURSIVE DedupCanon(_, _)
DedupCanon(rows, seen) ==
  IF rows = <<>> THEN <<>>
  ELSE IF CanonKey(Head(rows)) \in seen THEN DedupCanon(Tail(rows), seen)
  ELSE <<Head(rows)>> \o DedupCanon(Tail(rows), seen \cup {CanonKey(Head(rows))})

\* Code point order of the characters used in the model.
CharRank ==
  [c \in {"\t", " ", "0", "1", "2", "3", "4", "5", "6", "7", "8", "9", "B", "D", "H",
          "a", "l", "s", "x"} |->
     CASE c = "\t" -> 9 [] c = " " -> 32 [] c = "B" -> 66 [] c = "D" -> 68
       [] c = "H" -> 72 [] c = "a" -> 97 [] c = "l" -> 108 [] c = "s" -> 115
       [] c = "x" -> 120 [] OTHER -> 48 + Digit[c]]

RECURSIVE StrLess(_, _)
StrLess(a, b) ==
  IF b = <<>> THEN FALSE
  ELSE IF a = <<>> THEN TRUE
  ELSE IF Head(a) # Head(b) THEN CharRank[Head(a)] < CharRank[Head(b)]
  ELSE StrLess(Tail(a), Tail(b))

\* a sorts strictly before b in one sort column; nulls last.
ValLess(a, b) ==
  CASE IsNA(a) -> FALSE
    [] IsNA(b) -> TRUE
    [] a.t = "str" /\ b.t = "str" -> StrLess(a.s, b.s)
    [] a.t = "num" /\ b.t = "num" -> a.n < b.n \/ (a.n = b.n /\ a.m < b.m)
    [] OTHER -> FALSE

\* Row a sorts strictly before row b by (city, timestamp).
RowLess(a, b) ==
  \/ ValLess(a["city"], b["city"])
  \/ a["city"] = b["city"] /\ ValLess(a["timestamp"], b["timestamp"])

RECURSIVE InsertSorted(_, _)
InsertSorted(r, sorted) ==
  IF sorted = <<>> THEN <<r>>
  ELSE IF RowLess(r, Head(sorted)) THEN <<r>> \o sorted
  ELSE <<Head(sorted)>> \o InsertSorted(r, Tail(sorted))

\* df.sort_values(by=["city", "timestamp"]): stable, ascending.
SortValues_None(rows) == rows

RECURSIVE SortValues(_)
SortValues(rows) ==
  IF rows = <<>> THEN <<>>
  ELSE InsertSorted(rows[Len(rows)], SortValues(SubSeq(rows, 1, Len(rows) - 1)))

\* clean_weather_df(to_dataframe(records)): the canonical table, or an uncaught
\* TypeError.
CleanWeatherDf(recs) ==
  IF RenameCollision(recs) THEN [status |-> "error", cols |-> <<>>, rows |-> <<>>]
  ELSE [status |-> "ok", cols |-> CanonicalCols,
        rows |-> SortValues(DedupCanon([i \in 1..Len(recs) |-> CleanRow(recs[i])], {}))]

\* --------------------------------------------- normalizer: read_json_records
\* JSON values. A document is described by what json.loads returns for the
\* whole text and for each of its non-blank lines.
JObj(r) == [k |-> "obj", rec |-> r]
JScalar == [k |-> "scalar", rec |-> <<>>]
JErr == [k |-> "err", rec |-> <<>>]

Parsed(kind, items) == [k |-> kind, items |-> items]

\* Raw records, as produced by the fetch scripts and by hand-written files.
RawPool ==
  { [c \in {"city", "temp", "humidity", "timestamp", "fetched_at"} |->
       CASE c = "city" -> Str(<<"D">>) [] c = "temp" -> Num(20, 123)
         [] c = "humidity" -> Num(67, 0) [] c = "timestamp" -> Num(1000, 0)
         [] c = "fetched_at" -> Num(1100, 0)],
    [c \in {"city", "temp", "humidity", "timestamp", "fetched_at"} |->
       CASE c = "city" -> Str(<<"D">>) [] c = "temp" -> Num(10, 0)
         [] c = "humidity" -> Num(40, 0) [] c = "timestamp" -> Num(500, 0)
         [] c = "fetched_at" -> Num(600, 0)],
    [c \in {"city", "temp", "humidity", "timestamp", "fetched_at"} |->
       CASE c = "city" -> Str(<<"D">>) [] c = "temp" -> Num(85, 678)
         [] c = "humidity" -> Num(150, 0) [] c = "timestamp" -> Num(1000, 0)
         [] c = "fetched_at" -> Num(1100, 0)],
    [c \in {"city", "temp", "humidity", "timestamp", "fetched_at"} |->
       CASE c = "city" -> Str(<<"B">>) [] c = "temp" -> Num(300, 0)
         [] c = "humidity" -> Num(-10, 0) [] c = "timestamp" -> Num(2000, 0)
         [] c = "fetched_at" -> Num(900, 0)],
    [c \in {"city", "temp", "humidity", "timestamp"} |->
       CASE c = "city" -> Str(<<"D">>) [] c = "temp" -> Str(<<"x">>)
         [] c = "humidity" -> Str(<<"x">>)
         [] c = "timestamp" -> Str(<<"1", "0", "0", "0">>)],
    [c \in {"temp", "humidity", "timestamp", "fetched_at"} |->
       CASE c = "temp" -> Num(20, 0) [] c = "humidity" -> Num(50, 0)
         [] c = "timestamp" -> Num(1000, 0) [] c = "fetched_at" -> Num(1100, 0)],
    [c \in {"city", "temperature", "humidity_percent", "timestamp", "fetched_at"} |->
       CASE c = "city" -> Str(<<"H">>) [] c = "temperature" -> Num(26, 850)
         [] c = "humidity_percent" -> Num(67, 0) [] c = "timestamp" -> Num(1000, 0)
         [] c = "fetched_at" -> Num(1100, 0)] }

ObjSeqs == {[i \in 1..Len(q) |-> JObj(q[i])] : q \in SeqsUpTo(RawPool, MaxRecs)}

\* The documents given to the Normalizer. shape says what the text is; nl and
\* brace are the two tests of line 36; perLine and whole are the outcomes of
\* json.loads on each non-blank line and on the whole text.
Doc(shape, nl, brace, perLine, whole) ==
  [shape |-> shape, nl |-> nl, brace |-> brace, perLine |-> perLine, whole |-> whole]

Docs ==
  \* {"city": ...} on one line
  {Doc("object", FALSE, TRUE, <<o>>, Parsed("obj", <<o>>)) : o \in {JObj(r) : r \in RawPool}}
  \* one object printed over several lines: no line is a JSON text
  \cup {Doc("object", TRUE, TRUE, <<JErr, JErr, JErr>>, Parsed("obj", <<o>>)) :
          o \in {JObj(r) : r \in RawPool}}
  \* [{...}, {...}], on one line or on several
  \cup {Doc("array", nl, FALSE, <<JErr>>, Parsed("arr", q)) : q \in ObjSeqs, nl \in BOOLEAN}
  \* one object per line, two lines or more: the whole text is not one JSON text
  \cup {Doc("ndjson", TRUE, TRUE, q, Parsed("err", <<>>)) : q \in {x \in ObjSeqs : Len(x) >= 2}}
  \* one object per line with a line that is not JSON
  \cup {Doc("malformed", TRUE, TRUE, Append(q, JErr), Parsed("err", <<>>)) :
          q \in {x \in ObjSeqs : Len(x) >= 1}}
  \* [1, 2]: a JSON array whose elements are not objects
  \cup {Doc("array of non-objects", FALSE, FALSE, <<JErr>>, Parsed("arr", <<JScalar, JScalar>>))}
  \* 42, "text", null: JSON, but neither object nor array
  \cup {Doc("scalar", FALSE, FALSE, <<JScalar>>, Parsed("scalar", <<>>))}
  \* not JSON at all, and the empty file
  \cup {Doc("malformed", FALSE, b, <<JErr>>, Parsed("err", <<>>)) : b \in BOOLEAN}
  \cup {Doc("malformed", FALSE, FALSE, <<>>, Parsed("err", <<>>))}

\* read_json_records(path): the record list, or the exception raised.
ReadJsonRecords(d) ==
  LET lineOk == d.nl /\ d.brace
                /\ (\A i \in 1..Len(d.perLine) : d.perLine[i].k # "err")
                /\ d.perLine # <<>> /\ d.perLine[1].k = "obj" IN
  IF lineOk THEN [status |-> "ok", records |-> d.perLine]
  ELSE IF d.whole.k = "err" THEN [status |-> "JSONDecodeError", records |-> <<>>]
  ELSE IF d.whole.k = "obj" THEN [status |-> "ok", records |-> d.whole.items]
  ELSE IF d.whole.k = "arr" THEN [status |-> "ok", records |-> d.whole.items]
  ELSE [status |-> "ValueError", records |-> <<>>]

\* -------------------------------------------------------- normalizer actions
NoFile == [exists |-> FALSE, cols |-> <<>>, rows |-> <<>>]

NzIdle ==
  [pc |-> "idle", doc |-> Doc("malformed", FALSE, FALSE, <<>>, Parsed("err", <<>>)),
   parquet |-> FALSE, records |-> <<>>, cols |-> <<>>, rows |-> <<>>, err |-> ""]

\* transform.main, lines 146-147: records = read_json_records(in_path).
NzRead ==
  /\ nz.pc = "start"
  /\ LET r == ReadJsonRecords(nz.doc) IN
     nz' = IF r.status = "ok"
             THEN [nz EXCEPT !.pc = "loaded", !.records = r.records]
             ELSE [nz EXCEPT !.pc = "failed", !.err = r.status]
  /\ UNCHANGED <<files, loaderVars, valVars>>

\* transform.main, lines 150-153: df_clean = clean_weather_df(to_dataframe(records)).
NzClean ==
  /\ nz.pc = "loaded"
  /\ LET r == CleanWeatherDf(nz.records) IN
     nz' = IF r.status = "ok"
             THEN [nz EXCEPT !.pc = "cleaned", !.cols = r.cols, !.rows = r.rows]
             ELSE [nz EXCEPT !.pc = "failed", !.err = "TypeError"]
  /\ UNCHANGED <<files, loaderVars, valVars>>

\* transform.main, lines 156-159: the CSV is written.
NzWriteCsv ==
  /\ nz.pc = "cleaned"
  /\ files' = [files EXCEPT !.csv = [exists |-> TRUE, cols |-> nz.cols, rows |-> nz.rows]]
  /\ nz' = [nz EXCEPT !.pc = "csv"]
  /\ UNCHANGED <<loaderVars, valVars>>

\* transform.main, lines 161-166: the Parquet file is written when asked for.
NzWriteParquet ==
  /\ nz.pc = "csv"
  /\ files' = IF nz.parquet
                THEN [files EXCEPT !.parquet = [exists |-> TRUE, cols |-> nz.cols,
                                                 rows |-> nz.rows]]
                ELSE files
  /\ nz' = [nz EXCEPT !.pc = "done"]
  /\ UNCHANGED <<loaderVars, valVars>>

\* ------------------------------------------------- validator: schema_config
\* EXPECTED_DTYPES, as (column, dtype) pairs in dict order.
EXPECTED_DTYPES ==
  << <<"city", "string">>, <<"temperature", "float64">>,
     <<"humidity_percent", "int64">>, <<"timestamp", "int64">>,
     <<"fetched_at", "int64">> >>

\* RANGES, in dict order.
RANGES ==
  << [col |-> "temperature", lo |-> Num(-60, 0), hi |-> Num(60, 0)],
     [col |-> "humidity_percent", lo |-> Num(0, 0), hi |-> Num(100, 0)] >>

REQUIRED_COLUMNS == [i \in 1..Len(EXPECTED_DTYPES) |-> EXPECTED_DTYPES[i][1]]

UNIQUE_COMBO == <<"city", "timestamp">>

NON_NULL == REQUIRED_COLUMNS

\* ------------------------------------------------ validator: reading files
\* The digits after the point in the shortest text of m thousandths.
FracDigits(m) ==
  IF m % 100 = 0 THEN <<DigitChar[(m \div 100) + 1]>>
  ELSE IF m % 10 = 0 THEN <<DigitChar[(m \div 100) + 1], DigitChar[((m \div 10) % 10) + 1]>>
  ELSE <<DigitChar[(m \div 100) + 1], DigitChar[((m \div 10) % 10) + 1],
         DigitChar[(m % 10) + 1]>>

\* The text of a number in a CSV field: 67 in an integer column, 67.0 and
\* 26.85 in a float column.
FormatNumber(v, float) ==
  LET neg == v.n < 0
      ip == IF ~neg THEN v.n ELSE IF v.m = 0 THEN -v.n ELSE -v.n - 1
      fp == IF neg /\ v.m > 0 THEN 1000 - v.m ELSE v.m
      sign == IF neg THEN <<"-">> ELSE <<>>
  IN IF float THEN sign \o NatToStr(ip) \o <<".">> \o FracDigits(fp)
     ELSE sign \o NatToStr(ip)

\* A numeric column is a float column when it holds a null or a fraction.
FloatColumn(rows, c) ==
  \E i \in 1..Len(rows) : IsNA(rows[i][c]) \/ (rows[i][c].t = "num" /\ rows[i][c].m # 0)

\* df.to_csv: the text of one field. A null is the empty field; a date-time is
\* written as its day number and second of the day.
CsvText(v, float) ==
  CASE v.t = "na" -> <<>>
    [] v.t = "str" -> v.s
    [] v.t = "num" -> FormatNumber(v, float)
    [] OTHER -> NatToStr(v.n) \o <<"T">> \o NatToStr(v.m)

\* load_csv: pd.read_csv(path, dtype="string"). Every field is text; the
\* empty field is null.
ReadField(txt) == IF txt = <<>> THEN NA ELSE Str(txt)

LoadCsv(f) ==
  [cols |-> f.cols,
   rows |-> [i \in 1..Len(f.rows) |->
               [c \in DOMAIN f.rows[i] |->
                  ReadField(CsvText(f.rows[i][c], FloatColumn(f.rows, c)))]]]

\* load_parquet: the file carries the frame's typed values.
LoadParquet(f) == [cols |-> f.cols, rows |-> f.rows]

\* read_any on a .csv path: pd.read_csv(path) infers each column; a column
\* whose fields all read as numbers is numeric, any other is text.
NumericText(rows, c) ==
  \A i \in 1..Len(rows) : IsNA(rows[i][c]) \/ ~IsNA(ParseNumber(rows[i][c].s))

InferColumns(txt) ==
  [cols |-> txt.cols,
   rows |-> [i \in 1..Len(txt.rows) |->
               [c \in DOMAIN txt.rows[i] |->
                  IF NumericText(txt.rows, c) THEN ToNumeric(txt.rows[i][c])
                  ELSE txt.rows[i][c]]]]

ReadCsv(f) == InferColumns(LoadCsv(f))

\* -------------------------------------------------- validator: coerce_dtypes
\* Line 20: the required columns the frame lacks, in schema order.
MissingRequired_First(cols) ==
  LET m == SelectSeq(REQUIRED_COLUMNS, LAMBDA c : c \notin SeqToSet(cols)) IN
  IF m = <<>> THEN <<>> ELSE <<m[1]>>

MissingRequired(cols) == SelectSeq(REQUIRED_COLUMNS, LAMBDA c : c \notin SeqToSet(cols))

\* The columns coerced with pd.to_numeric, and those then cast to Int64.
NumericColumns ==
  {EXPECTED_DTYPES[i][1] : i \in {j \in 1..Len(EXPECTED_DTYPES) : EXPECTED_DTYPES[j][1] # "city"}}

IntColumns ==
  {EXPECTED_DTYPES[i][1] : i \in {j \in 1..Len(EXPECTED_DTYPES) : EXPECTED_DTYPES[j][2] = "int64"}}

\* Series.astype("string"): text stays, a number becomes its text.
AsString(v) ==
  CASE v.t = "num" -> Str(FormatNumber(v, v.m # 0))
    [] OTHER -> v

\* Lines 26-40 for one row.
CoerceCells(row) ==
  [c \in DOMAIN row |->
     CASE c = "city" -> AsString(row[c])
       [] c \in NumericColumns -> ToNumeric(row[c])
       [] OTHER -> row[c]]

\* The outcome of coerce_dtypes, given the missing columns and the coerced rows.
Coerced(cols, missing, out) ==
  IF missing # <<>>
    THEN [status |-> "ValueError", names |-> missing, cols |-> <<>>, rows |-> <<>>]
  ELSE IF \E i \in 1..Len(out) : \E c \in IntColumns : ~IsIntegral(out[i][c])
    THEN [status |-> "TypeError", names |-> <<>>, cols |-> <<>>, rows |-> <<>>]
  ELSE [status |-> "ok", names |-> <<>>, cols |-> cols, rows |-> out]

\* coerce_dtypes(df): the typed frame, or the exception raised. ValueError
\* carries the list of missing columns; TypeError is the refusal of
\* astype("Int64") to cast a number that is not whole.
CoerceDtypes(df) ==
  Coerced(df.cols, MissingRequired(df.cols),
          [i \in 1..Len(df.rows) |-> CoerceCells(df.rows[i])])

\* The dtype of a column of the coerced frame (lines 42-48); the date-time
\* mirrors keep the dtype they were loaded with.
ResolvedDtype(label, c) ==
  CASE c = "city" -> "string"
    [] c = "temperature" -> "float64"
    [] c \in IntColumns -> "Int64"
    [] OTHER -> IF label = "CSV" THEN "string" ELSE "datetime64[ns, UTC]"

\* ----------------------------------------------------- validator: run_checks
\* One problem string, by its parts.
Problem(label, kind, col, n) ==
  [label |-> label, kind |-> kind, col |-> col, n |-> n, err |-> "", names |-> <<>>]

\* Lines 55-58: one problem per required column that holds nulls.
NullCount(rows, c) == Cardinality({i \in 1..Len(rows) : IsNA(rows[i][c])})

NullProblems(df, label) ==
  LET hit == SelectSeq(NON_NULL, LAMBDA c : NullCount(df.rows, c) > 0) IN
  [k \in 1..Len(hit) |-> Problem(label, "nulls", hit[k], NullCount(df.rows, hit[k]))]

\* Line 63: the value is present and below lo or above hi.
OutOfRange_Never(v, lo, hi) == FALSE

OutOfRange(v, lo, hi) == ~IsNA(v) /\ (ValLess(v, lo) \/ ValLess(hi, v))

BadCount(rows, g) ==
  Cardinality({i \in 1..Len(rows) : OutOfRange(rows[i][g.col], g.lo, g.hi)})

\* Lines 61-65: one problem per ranged column with values outside its range.
RangeProblems(df, label) ==
  LET hit == SelectSeq(RANGES, LAMBDA g : g.col \in SeqToSet(df.cols) /\ BadCount(df.rows, g) > 0)
  IN [k \in 1..Len(hit) |-> Problem(label, "outside range", hit[k].col, BadCount(df.rows, hit[k]))]

\* Line 72: nullable integers compare as int64.
NormDtype_Identity(t) == t

NormDtype(t) == IF t = "Int64" THEN "int64" ELSE t

\* Lines 68-77: one problem per expected column whose dtype differs.
DtypeProblems(df, label) ==
  LET hit == SelectSeq(EXPECTED_DTYPES,
                       LAMBDA e : NormDtype(IF e[1] \in SeqToSet(df.cols)
                                              THEN ResolvedDtype(label, e[1])
                                              ELSE "<missing>") # NormDtype(e[2]))
  IN [k \in 1..Len(hit) |-> Problem(label, "dtype mismatch", hit[k][1], 0)]

\* Lines 80-83: rows whose (city, timestamp) occurred in an earlier row.
DuplicateCount(rows) ==
  Cardinality({i \in 1..Len(rows) : \E j \in 1..(i - 1) : CanonKey(rows[j]) = CanonKey(rows[i])})

DuplicateProblems(df, label) ==
  IF SeqToSet(UNIQUE_COMBO) \subseteq SeqToSet(df.cols) /\ DuplicateCount(df.rows) > 0
    THEN <<Problem(label, "duplicate rows", "", DuplicateCount(df.rows))>>
    ELSE <<>>

\* Lines 86-89: rows fetched before they were observed.
EarlyCount(rows) ==
  Cardinality({i \in 1..Len(rows) :
                 /\ ~IsNA(rows[i]["timestamp"])
                 /\ ~IsNA(rows[i]["fetched_at"])
                 /\ ValLess(rows[i]["fetched_at"], rows[i]["timestamp"])})

FetchedProblems(df, label) ==
  IF {"timestamp", "fetched_at"} \subseteq SeqToSet(df.cols) /\ EarlyCount(df.rows) > 0
    THEN <<Problem(label, "fetched_at < timestamp", "", EarlyCount(df.rows))>>
    ELSE <<>>

\* run_checks(df, source_name): the five checks, in this order.
RunChecks_RangeFirst(df, label) ==
  RangeProblems(df, label) \o NullProblems(df, label) \o DtypeProblems(df, label)
    \o DuplicateProblems(df, label) \o FetchedProblems(df, label)

RunChecks(df, label) ==
  NullProblems(df, label) \o RangeProblems(df, label) \o DtypeProblems(df, label)
    \o DuplicateProblems(df, label) \o FetchedProblems(df, label)

\* ----------------------------------------------------------- validator: main
\* Lines 94-97: the sources, in the order they are handled.
INPUTS == << [label |-> "CSV", file |-> "csv"], [label |-> "PARQUET", file |-> "parquet"] >>

Labels == {INPUTS[i].label : i \in 1..Len(INPUTS)}

NoSummary == [present |-> FALSE, rows |-> 0, columns |-> <<>>, dtypes |-> <<>>]

\* Lines 115-119.
Summary(df, label) ==
  [present |-> TRUE, rows |-> Len(df.rows), columns |-> df.cols,
   dtypes |-> [i \in 1..Len(df.cols) |-> ResolvedDtype(label, df.cols[i])]]

\* Line 122: the problem made from an exception of the given type.
ExceptionProblem_Silent(label, err, names) == <<>>

ExceptionProblem(label, err, names) ==
  <<[Problem(label, "Exception", "", 0) EXCEPT !.err = err, !.names = names]>>

\* The try block left by an exception: one problem, no summary.
Failed(label, err, names) ==
  [ok |-> FALSE, probs |-> ExceptionProblem(label, err, names), summary |-> NoSummary]

\* Lines 108-120, given the outcome df of coerce_dtypes.
Checked(label, df, env) ==
  IF df.status # "ok" THEN Failed(label, df.status, df.names)
  ELSE IF env = "save fails" THEN Failed(label, "OSError", <<>>)
  ELSE [ok |-> TRUE, probs |-> RunChecks(df, label), summary |-> Summary(df, label)]

\* Line 106: loader(path).
Load(label, f) == IF label = "CSV" THEN LoadCsv(f) ELSE LoadParquet(f)

\* Lines 105-122 for one source whose file exists. env is what the file
\* system does: "ok", "unreadable" (the loader raises) or "save fails" (the
\* re-save of the coerced frame raises).
HandleSource(label, f, env) ==
  IF env = "unreadable" THEN Failed(label, "OSError", <<>>)
  ELSE Checked(label, CoerceDtypes(Load(label, f)), env)

\* The locals of main after one source was handled with outcome r.
AfterSource(v, label, r) ==
  [v EXCEPT !.all_problems = @ \o r.probs,
            !.summaries[label] = r.summary,
            !.saved = IF r.ok THEN @ \cup {label} ELSE @,
            !.i = @ + 1]

\* Lines 133-140: the exit status.
ExitCode_Success(problems) == IF problems # <<>> THEN 0 ELSE 0

ExitCode(problems) == IF problems # <<>> THEN 1 ELSE 0

NoReport == [written |-> FALSE, problems |-> <<>>, summaries |-> [l \in Labels |-> NoSummary]]

ValIdle ==
  [pc |-> "idle", i |-> 1, all_problems |-> <<>>, summaries |-> [l \in Labels |-> NoSummary],
   saved |-> {}, code |-> 0]

\* main, lines 94-99.
ValStart ==
  /\ val.pc = "idle"
  /\ val' = [ValIdle EXCEPT !.pc = "loop"]
  /\ UNCHANGED <<report, nzVars, loaderVars>>

\* Lines 102-104: the file of the source does not exist.
ValMissingFile ==
  /\ val.pc = "loop"
  /\ val.i <= Len(INPUTS)
  /\ ~files[INPUTS[val.i].file].exists
  /\ val' = [val EXCEPT !.all_problems =
                          Append(@, Problem(INPUTS[val.i].label, "Missing file", "", 0)),
                        !.i = @ + 1]
  /\ UNCHANGED <<report, nzVars, loaderVars>>

\* Lines 105-122: the source is loaded, coerced, checked and saved again; an
\* exception anywhere in this becomes one problem.
ValSource(Envs) ==
  /\ val.pc = "loop"
  /\ val.i <= Len(INPUTS)
  /\ files[INPUTS[val.i].file].exists
  /\ \E env \in Envs :
       val' = AfterSource(val, INPUTS[val.i].label,
                          HandleSource(INPUTS[val.i].label, files[INPUTS[val.i].file], env))
  /\ UNCHANGED <<report, nzVars, loaderVars>>

\* Lines 124-131: the report is written.
ValWriteReport ==
  /\ val.pc = "loop"
  /\ val.i > Len(INPUTS)
  /\ report' = [written |-> TRUE, problems |-> val.all_problems, summaries |-> val.summaries]
  /\ val' = [val EXCEPT !.pc = "reported"]
  /\ UNCHANGED <<nzVars, loaderVars>>

\* Lines 133-140: sys.exit(1) when there are problems, sys.exit(0) otherwise.
ValExit ==
  /\ val.pc = "reported"
  /\ val' = [val EXCEPT !.pc = "exited", !.code = ExitCode(val.all_problems)]
  /\ UNCHANGED <<report, nzVars, loaderVars>>

\* What the file system may do while a source is handled.
Envs == {"ok", "unreadable", "save fails"}

\* ------------------------------------------------------- validator: inputs
\* Longest table of a file given to the Validator.
MaxValRows == 2

\* A canonical row with its date-time mirrors.
CanonRow(city, temperature, humidity, timestamp, fetched_at) ==
  [c \in SeqToSet(CanonicalCols) |->
     CASE c = "city" -> city
       [] c = "temperature" -> temperature
       [] c = "humidity_percent" -> humidity
       [] c = "timestamp" -> timestamp
       [] c = "timestamp_iso" -> ToDatetime(timestamp)
       [] c = "fetched_at" -> fetched_at
       [] c = "fetched_at_iso" -> ToDatetime(fetched_at)]

\* Rows of the files the Validator is run on: a clean row, a second row with
\* the same key and a temperature out of range, a row fetched before it was
\* observed, a row with nulls, a row whose humidity is not whole, a row with
\* both ranged columns out of range that repeats the key of the third, and a
\* clean row on the bounds (humidity 100, fetched when observed).
ValPool ==
  { CanonRow(Str(<<"D">>), Num(20, 120), Num(67, 0), Num(1000, 0), Num(1100, 0)),
    CanonRow(Str(<<"D">>), Num(85, 0), Num(50, 0), Num(1000, 0), Num(1100, 0)),
    CanonRow(Str(<<"B">>), Num(20, 0), Num(40, 0), Num(2000, 0), Num(900, 0)),
    CanonRow(Str(<<"H">>), NA, NA, Num(1000, 0), NA),
    CanonRow(Str(<<"H">>), Num(10, 0), Num(67, 500), Num(3000, 0), Num(3100, 0)),
    CanonRow(Str(<<"B">>), Num(-70, 500), Num(150, 0), Num(2000, 0), Num(600, 0)),
    CanonRow(Str(<<"H">>), Num(30, 500), Num(100, 0), Num(3000, 0), Num(3000, 0)) }

\* The column lists of those files: all canonical columns, or some missing.
ValLayouts ==
  { CanonicalCols,
    SelectSeq(CanonicalCols, LAMBDA c : c # "humidity_percent"),
    SelectSeq(CanonicalCols, LAMBDA c : c \notin {"humidity_percent", "fetched_at"}) }

Restrict(cols, r) == [c \in SeqToSet(cols) |-> r[c]]

ValFiles ==
  UNION {{[exists |-> TRUE, cols |-> cols, rows |-> rows] :
            rows \in SeqsUpTo({Restrict(cols, r) : r \in ValPool}, MaxValRows)} :
         cols \in ValLayouts}

\* A Parquet file that differs from the CSV file next to it.
OddParquet ==
  [exists |-> TRUE, cols |-> CanonicalCols,
   rows |-> <<CanonRow(Str(<<"B">>), Num(-70, 500), Num(150, 0), Num(2000, 0), Num(600, 0))>>]

\* Raw records of the end-to-end runs.
Dallas == <<"D", "a", "l", "l", "a", "s">>

RawRecord(city, temp, humidity, timestamp, fetched_at) ==
  [c \in {"city", "temp", "humidity", "timestamp", "fetched_at"} |->
     CASE c = "city" -> city [] c = "temp" -> temp [] c = "humidity" -> humidity
       [] c = "timestamp" -> timestamp [] c = "fetched_at" -> fetched_at]

DallasRecord ==
  RawRecord(Str(Dallas), Num(300, 0), Num(67, 0), Num(1700000000, 0), Num(1700000100, 0))

PipePool ==
  { DallasRecord,
    RawRecord(Str(<<"D">>), Num(20, 123), Num(67, 0), Num(1000, 0), Num(1100, 0)),
    RawRecord(Str(<<"D">>), Num(85, 0), Num(150, 0), Num(1000, 0), Num(1100, 0)),
    RawRecord(Str(<<"B">>), Num(85, 678), Num(40, 0), Num(2000, 0), Num(2100, 0)) }

PipeDocs ==
  {Doc("array", FALSE, FALSE, <<JErr>>, Parsed("arr", [i \in 1..Len(q) |-> JObj(q[i])])) :
     q \in SeqsUpTo(PipePool, MaxRecs)}

\* The store before an end-to-end run: empty, or holding the key (D, 1000).
PipeStores ==
  { <<>>,
    StoreAppend(<<>>, <<[city |-> <<"D">>, temperature_c |-> Num(20, 0),
                         humidity_percent |-> 67, timestamp_unix |-> 1000]>>) }

\* python -m src.load data/clean_data.csv
StartOnCsv(p) ==
  /\ files.csv.exists
  /\ Start(p, {ReadCsv(files.csv)}, BOOLEAN)

\* ---------------------------------------------------------- specifications
LoaderInit(S0) ==
  /\ store \in S0
  /\ lock = 0
  /\ ld = [p \in Procs |-> Idle]
  /\ runs = 0
  /\ first = NoFirst

NzInit(D) ==
  /\ nz \in {[NzIdle EXCEPT !.pc = "start", !.doc = d, !.parquet = b] : d \in D, b \in BOOLEAN}
  /\ files = [csv |-> NoFile, parquet |-> NoFile]

NzOff ==
  /\ nz = NzIdle
  /\ files = [csv |-> NoFile, parquet |-> NoFile]

ValOff ==
  /\ val = ValIdle
  /\ report = NoReport

\* Loader invocations one after the other, in either mode, on a store that
\* starts with at most one row per business key.
Init ==
  /\ LoaderInit({st \in Stores(MaxInitStore) : UniqueKeys(st)})
  /\ serialized = FALSE
  /\ NzOff
  /\ ValOff

Next ==
  \/ Start(1, Tables, BOOLEAN)
  \/ ReadAnyExit(1)
  \/ Step(1)
  \/ Exit(1)

Spec == Init /\ [][Next]_vars

\* One run of the Normalizer on one document.
InitNorm ==
  /\ LoaderInit({<<>>})
  /\ serialized = FALSE
  /\ NzInit(Docs)
  /\ ValOff

NextNorm ==
  \/ NzRead
  \/ NzClean
  \/ NzWriteCsv
  \/ NzWriteParquet

SpecNorm == InitNorm /\ [][NextNorm]_vars

\* The same file loaded twice, on any store.
InitRerun ==
  /\ LoaderInit(Stores(MaxInitStore + 1))
  /\ serialized = FALSE
  /\ NzOff
  /\ ValOff

NextRerun ==
  \/ RunFirst(1)
  \/ RunAgain(1)
  \/ Step(1)

SpecRerun == InitRerun /\ [][NextRerun]_vars

\* Two skip-existing invocations running at the same time, on a store that
\* either serializes each session's read-then-insert or does not.
InitConc ==
  /\ LoaderInit({st \in Stores(MaxInitStore) : UniqueKeys(st)})
  /\ serialized \in BOOLEAN
  /\ NzOff
  /\ ValOff

NextConc ==
  \E p \in Procs :
    \/ Start(p, ConcTables, {FALSE})
    \/ Step(p)

SpecConc == InitConc /\ [][NextConc]_vars

\* One run of the Validator on the files found at its two paths.
InitVal ==
  /\ LoaderInit({<<>>})
  /\ serialized = FALSE
  /\ nz = NzIdle
  /\ files \in UNION {{[csv |-> c, parquet |-> q] : q \in {NoFile, OddParquet, c}} :
                       c \in ValFiles \cup {NoFile}}
  /\ ValOff

NextVal ==
  \/ ValStart
  \/ ValMissingFile
  \/ ValSource(Envs)
  \/ ValWriteReport
  \/ ValExit

SpecVal == InitVal /\ [][NextVal]_vars

\* End to end: the Normalizer writes the canonical table, the Validator checks
\* the files written, and the Loader loads the CSV file.
InitPipe ==
  /\ LoaderInit(PipeStores)
  /\ serialized = FALSE
  /\ NzInit(PipeDocs)
  /\ ValOff

NextPipe ==
  \/ NzRead
  \/ NzClean
  \/ NzWriteCsv
  \/ NzWriteParquet
  \/ (nz.pc \in {"done", "failed"} /\ ValStart)
  \/ ValMissingFile
  \/ ValSource({"ok"})
  \/ ValWriteReport
  \/ ValExit
  \/ (val.pc = "exited" /\ StartOnCsv(1))
  \/ Step(1)

SpecPipe == InitPipe /\ [][NextPipe]_vars

\* --------------------------------------------------------------- properties
\* What the specification says of the Loader's input, stated on the input
\* table: the fixed mapping of canonical to storage names, and the rows that
\* have no null in a required field after coercion.
StorageName(c) ==
  CASE c = "temperature" -> "temperature_c"
    [] c = "timestamp" -> "timestamp_unix"
    [] OTHER -> c

RequiredFields == {"city", "temperature_c", "humidity_percent", "timestamp_unix"}

AbsentFields(tbl) ==
  {k \in RequiredFields : \A i \in 1..Len(tbl.cols) : StorageName(tbl.cols[i]) # k}

ValidInputRows(tbl) ==
  {i \in 1..Len(tbl.rows) : ~HasRequiredNull(CoerceRow(tbl.cols, tbl.rows[i]))}

InputKey(tbl, i) ==
  LET r == CoerceRow(tbl.cols, tbl.rows[i]) IN <<r.city.s, r.timestamp_unix.n>>

ValidKeys(tbl) == {InputKey(tbl, i) : i \in ValidInputRows(tbl)}

\* The rows the store gained since the invocation of process p started.
Gained(p) == SubSeq(store, Len(ld[p].store0) + 1, Len(store))

KeptOld(p) ==
  /\ Len(ld[p].store0) <= Len(store)
  /\ \A i \in 1..Len(ld[p].store0) : store[i] = ld[p].store0[i]

\* C1: from a store with at most one row per business key, no step of a
\* skip-existing invocation leads to a store with two rows of the same
\* (city, timestamp_unix); the initial store of Spec has unique keys.
C1_NoDuplicateKeys ==
  [][(UniqueKeys(store) /\ ~ld[1].noSkip) => UniqueKeys(store')]_vars

C1_Witness ==
  /\ ld[1].pc = "done"
  /\ ~ld[1].noSkip
  /\ ld[1].out.inserted >= 1
  /\ ld[1].out.skipped >= 1
  /\ UniqueKeys(store)

\* C2: a completed skip-existing invocation inserts exactly one row per
\* distinct valid key of the batch that the store lacked and reports as skipped
\* the number of distinct valid keys the store had; loading one file twice into
\* a store that had none of its keys gives inserted1 = number of distinct keys,
\* inserted2 = 0 and skipped2 = inserted1.
C2_SkipExistingCounts ==
  (ld[1].pc = "done" /\ ~ld[1].noSkip) =>
    LET vk == ValidKeys(ld[1].table)
        old == {Key(ld[1].store0[i]) : i \in 1..Len(ld[1].store0)}
        got == Gained(1) IN
    /\ KeptOld(1)
    /\ ld[1].out.inserted = Cardinality(vk \ old)
    /\ Len(got) = Cardinality(vk \ old)
    /\ {Key(got[i]) : i \in 1..Len(got)} = vk \ old
    /\ ld[1].out.skipped = Cardinality(vk \cap old)
    /\ (runs = 2 /\ first.done
        /\ vk \cap {Key(first.store0[i]) : i \in 1..Len(first.store0)} = {}) =>
         /\ first.inserted = Cardinality(vk)
         /\ ld[1].out.inserted = 0
         /\ first.inserted + ld[1].out.inserted = Cardinality(vk)
         /\ ld[1].out.skipped = first.inserted

C2_Witness ==
  /\ ld[1].pc = "done"
  /\ ~ld[1].noSkip
  /\ runs = 2
  /\ first.done
  /\ first.inserted = 2
  /\ first.store0 # <<>>
  /\ ld[1].out.inserted = 0
  /\ ld[1].out.skipped = 2

\* C3: every row persisted when an invocation started is still in the store,
\* with the same id, city, temperature_c, humidity_percent and timestamp_unix,
\* at every point of the invocation and after it, in both modes and whether it
\* succeeds or fails.
C3_AppendOnly ==
  ld[1].pc # "idle" =>
    \A i \in 1..Len(ld[1].store0) :
      \E j \in 1..Len(store) : store[j] = ld[1].store0[i]

C3_Witness ==
  /\ ld[1].pc = "done"
  /\ ld[1].noSkip
  /\ ld[1].out.inserted >= 1
  /\ \E i \in 1..Len(ld[1].store0), j \in 1..Len(ld[1].to_insert) :
       Key(ld[1].store0[i]) = Key(ld[1].to_insert[j])

\* C4: when an invocation has ended, normally or by a failure of the bulk
\* insert or of the commit, the store holds all of the new rows computed for
\* the invocation or none of them.
C4_AllOrNothing ==
  Ended(1) =>
    /\ KeptOld(1)
    /\ \/ Gained(1) = <<>>
       \/ /\ Len(Gained(1)) = Len(ld[1].to_insert)
          /\ \A i \in 1..Len(ld[1].to_insert) :
               /\ Key(Gained(1)[i]) = Key(ld[1].to_insert[i])
               /\ Gained(1)[i].temperature_c = ld[1].to_insert[i].temperature_c
               /\ Gained(1)[i].humidity_percent = ld[1].to_insert[i].humidity_percent

C4_Witness ==
  /\ ld[1].pc = "aborted"
  /\ Len(ld[1].to_insert) = 2
  /\ ld[1].written = 1
  /\ store = ld[1].store0

\* C5: with a store that serializes each session's existing-key query and bulk
\* insert, concurrent skip-existing invocations over overlapping batches never
\* leave two persisted rows with the same business key.
C5_SerializedUnique == serialized => UniqueKeys(store)

C5_Witness ==
  /\ serialized
  /\ ld[1].pc = "done"
  /\ ld[2].pc = "done"
  /\ ld[1].store0 = ld[2].store0
  /\ ValidKeys(ld[1].table) \cap ValidKeys(ld[2].table) # {}
  /\ ld[1].out.inserted + ld[2].out.inserted >= 1
  /\ ld[1].out.skipped + ld[2].out.skipped >= 1
  /\ Len(store) = Len(ld[1].store0) + Cardinality(ValidKeys(ld[1].table) \cup ValidKeys(ld[2].table))

\* C6: in force mode the existing keys are never read, and a completed
\* invocation has inserted every row of the deduplicated valid batch:
\* inserted = total valid rows, skipped = 0, whatever the store held.
C6_ForceInsertsAll ==
  (ld[1].pc # "idle" /\ ld[1].noSkip) =>
    /\ ~ld[1].queried
    /\ ld[1].pc = "done" =>
         /\ ld[1].out.skipped = 0
         /\ ld[1].out.inserted = ld[1].out.total
         /\ ld[1].out.total = Cardinality(ValidKeys(ld[1].table))
         /\ KeptOld(1)
         /\ Len(Gained(1)) = ld[1].out.total
         /\ {Key(Gained(1)[i]) : i \in 1..Len(Gained(1))} = ValidKeys(ld[1].table)

C6_Witness ==
  /\ ld[1].pc = "done"
  /\ ld[1].noSkip
  /\ ld[1].out.inserted >= 1
  /\ ValidKeys(ld[1].table) \subseteq {Key(ld[1].store0[i]) : i \in 1..Len(ld[1].store0)}

\* C7: when a required storage field is absent from the input table after
\* the column mapping, the invocation ends at normalize with an error that
\* names an absent field and lists the mapped columns; the store is neither
\* read nor written.
C7_MissingColumnFatal ==
  (ld[1].pc \notin {"idle", "read"} /\ ld[1].table.cols # <<>>
   /\ AbsentFields(ld[1].table) # {}) =>
    /\ ld[1].pc = "exited"
    /\ ld[1].out.kind = "Missing column"
    /\ ld[1].out.field \in AbsentFields(ld[1].table)
    /\ ld[1].out.columns =
         [i \in 1..Len(ld[1].table.cols) |-> StorageName(ld[1].table.cols[i])]
    /\ ~ld[1].queried
    /\ ld[1].written = 0
    /\ store = ld[1].store0

C7_Witness ==
  /\ ld[1].pc = "exited"
  /\ ld[1].out.kind = "Missing column"
  /\ ld[1].out.field = "humidity_percent"
  /\ Len(ld[1].table.rows) = 2
  /\ ld[1].store0 # <<>>

\* C8: the batch the Loader considers has exactly one row per distinct
\* (trimmed city, timestamp_unix) of the input rows without a null required
\* field after coercion; that number is the reported total; rows with a null
\* required field do not fail the invocation and are never inserted.
PastNormalize(p) ==
  ld[p].pc \in {"normalized", "session", "selected", "flushed", "failed", "closing",
                "closed", "aborted", "done"}

WholeNumbers(tbl) ==
  \A i \in 1..Len(tbl.rows) :
    /\ IsIntegral(CoerceRow(tbl.cols, tbl.rows[i]).humidity_percent)
    /\ IsIntegral(CoerceRow(tbl.cols, tbl.rows[i]).timestamp_unix)

C8_BatchIsDistinctValidKeys ==
  /\ PastNormalize(1) =>
       /\ Len(ld[1].df) = Cardinality(ValidKeys(ld[1].table))
       /\ Keys(ld[1].df) = ValidKeys(ld[1].table)
       /\ \A i \in 1..Len(Gained(1)) : Key(Gained(1)[i]) \in ValidKeys(ld[1].table)
       /\ ld[1].pc = "done" => ld[1].out.total = Cardinality(ValidKeys(ld[1].table))
  /\ (ld[1].pc = "crashed" /\ ~DuplicateLabel(ld[1].table.cols)) =>
       ~WholeNumbers(ld[1].table)

C8_Witness ==
  /\ ld[1].pc = "done"
  /\ Len(ld[1].table.rows) = 2
  /\ Cardinality(ValidInputRows(ld[1].table)) = 2
  /\ ld[1].table.rows[1] # ld[1].table.rows[2]
  /\ ld[1].out.total = 1
  /\ ld[1].out.inserted = 1

\* C9: a single JSON object gives one record, an array of objects and NDJSON
\* give their objects; any other input makes read_json_records fail and the
\* run ends before a CSV or Parquet table is written.
AcceptedShapes == {"object", "array", "ndjson"}

C9_MalformedInputAborts ==
  nz.pc \notin {"idle", "start"} =>
    /\ nz.doc.shape \in AcceptedShapes =>
         /\ nz.err \notin {"JSONDecodeError", "ValueError"}
         /\ nz.doc.shape = "object" => Len(nz.records) = 1
         /\ \A i \in 1..Len(nz.records) : nz.records[i].k = "obj"
    /\ nz.doc.shape \notin AcceptedShapes =>
         /\ nz.pc = "failed"
         /\ nz.err \in {"JSONDecodeError", "ValueError"}
         /\ ~files.csv.exists
         /\ ~files.parquet.exists

\* C10: the canonical table has no two rows with the same (city, timestamp),
\* and each input record is represented by the row made from the first record
\* with its key.
CleanedKey(r) == CanonKey(CleanRow(r))

C10_UniqueCanonicalKeys ==
  nz.pc \in {"cleaned", "csv", "done"} =>
    /\ \A i, j \in 1..Len(nz.rows) : CanonKey(nz.rows[i]) = CanonKey(nz.rows[j]) => i = j
    /\ \A i \in 1..Len(nz.records) :
         LET f == CHOOSE j \in 1..i :
                    /\ CleanedKey(nz.records[j]) = CleanedKey(nz.records[i])
                    /\ \A h \in 1..(j - 1) :
                         CleanedKey(nz.records[h]) # CleanedKey(nz.records[i])
         IN \E h \in 1..Len(nz.rows) : nz.rows[h] = CleanRow(nz.records[f])
    /\ Len(nz.rows) = Cardinality({CleanedKey(nz.records[i]) : i \in 1..Len(nz.records)})
    /\ files.csv.exists => files.csv.rows = nz.rows

C10_Witness ==
  /\ nz.pc = "done"
  /\ Len(nz.records) = 2
  /\ CleanedKey(nz.records[1]) = CleanedKey(nz.records[2])
  /\ CleanRow(nz.records[1]) # CleanRow(nz.records[2])
  /\ files.csv.exists
  /\ files.csv.rows = <<CleanRow(nz.records[1])>>

\* C11: the rows of the canonical table are in ascending order of
\* (city, timestamp): no row sorts strictly before the row in front of it (a
\* null sorts after every value), and the table is a rearrangement of the
\* deduplicated rows.
Ascending(rows) == \A i \in 1..(Len(rows) - 1) : ~RowLess(rows[i + 1], rows[i])

C11_SortedByCityTimestamp ==
  nz.pc \in {"cleaned", "csv", "done"} =>
    /\ Ascending(nz.rows)
    /\ \A i \in 1..Len(nz.records) :
         \E h \in 1..Len(nz.rows) : CanonKey(nz.rows[h]) = CleanedKey(nz.records[i])

C11_Witness ==
  /\ nz.pc = "done"
  /\ Len(nz.records) = 2
  /\ CleanRow(nz.records[1])["city"] = CleanRow(nz.records[2])["city"]
  /\ RowLess(CleanRow(nz.records[2]), CleanRow(nz.records[1]))
  /\ nz.rows = <<CleanRow(nz.records[2]), CleanRow(nz.records[1])>>

\* C12: a numeric humidity h is stored as min(max(h, 0), 100), a humidity
\* that is not numeric is stored as null, and no record loses its row because
\* of its humidity: every canonical row is made from an input record this way,
\* and every record's key has a row.
Thousandths(v) == 1000 * v.n + v.m

Clamped(v) ==
  LET h == Thousandths(v)
      lo == IF h < 0 THEN 0 ELSE h
      c == IF lo > 100000 THEN 100000 ELSE lo
  IN Num(c \div 1000, c % 1000)

HumidityOf(r) == ToNumeric(RawCell(r, "humidity_percent"))

C12_HumidityClamped ==
  nz.pc \in {"cleaned", "csv", "done"} =>
    /\ \A h \in 1..Len(nz.rows) :
         \E i \in 1..Len(nz.records) :
           /\ CanonKey(nz.rows[h]) = CleanedKey(nz.records[i])
           /\ nz.rows[h]["humidity_percent"] =
                IF HumidityOf(nz.records[i]).t = "num"
                  THEN Clamped(HumidityOf(nz.records[i])) ELSE NA
    /\ \A i \in 1..Len(nz.records) :
         \E h \in 1..Len(nz.rows) : CanonKey(nz.rows[h]) = CleanedKey(nz.records[i])

C12_Witness ==
  /\ nz.pc = "done"
  /\ \E i \in 1..Len(nz.records) : HumidityOf(nz.records[i]) = Num(150, 0)
  /\ \E h \in 1..Len(nz.rows) :
       /\ nz.rows[h]["humidity_percent"] = Num(100, 0)
       /\ nz.rows[h]["temperature"] = Num(85, 680)
  /\ \E h \in 1..Len(nz.rows) : nz.rows[h]["humidity_percent"] = Num(0, 0)

\* What the report says of one source: the problems tagged with its label,
\* in report order, and those of one kind and column.
ProblemsOf(l) == SelectSeq(report.problems, LAMBDA q : q.label = l)

RangeProblemsOf(l, col) ==
  SelectSeq(report.problems,
            LAMBDA q : q.label = l /\ q.kind = "outside range" /\ q.col = col)

\* The source was loaded, coerced, checked and saved again without exception.
Processed(l) == report.summaries[l].present

\* The file of the source labelled l.
FileFor(l) == files[INPUTS[CHOOSE i \in 1..Len(INPUTS) : INPUTS[i].label = l].file]

\* Temperatures of the canonical table that the schema calls out of range.
TooHotOrCold(v) == v.t = "num" /\ (v.n < -60 \/ v.n > 60 \/ (v.n = 60 /\ v.m > 0))

OutOfRangeRows == {h \in 1..Len(nz.rows) : TooHotOrCold(nz.rows[h]["temperature"])}

RawTemperature(r) == ToNumeric(RawCell(r, "temperature"))

\* C13, as stated: a temperature outside [-60, 60] reaches the canonical table
\* unchanged (but for the rounding to two decimals), and the report then holds
\* exactly one 'outside range' problem for temperature.
C13_OneRangeProblemInReport ==
  /\ nz.pc \in {"cleaned", "csv", "done"} =>
       \A h \in OutOfRangeRows :
         \E i \in 1..Len(nz.records) :
           /\ CleanedKey(nz.records[i]) = CanonKey(nz.rows[h])
           /\ nz.rows[h]["temperature"] = Round2(RawTemperature(nz.records[i]))
  /\ (val.pc = "exited" /\ OutOfRangeRows # {}) =>
       Len(RangeProblemsOf("CSV", "temperature"))
         + Len(RangeProblemsOf("PARQUET", "temperature")) = 1

\* C13, amended: a temperature outside [-60, 60] is neither rejected nor
\* clipped by the Normalizer, only rounded to two decimals; the report then
\* holds one 'outside range' problem for temperature per source checked (CSV,
\* and PARQUET when that file was written), each counting all the rows out of
\* range.
C13_OneRangeProblemPerSource ==
  /\ nz.pc \in {"cleaned", "csv", "done"} =>
       /\ \A h \in 1..Len(nz.rows) :
            \E i \in 1..Len(nz.records) :
              /\ CleanedKey(nz.records[i]) = CanonKey(nz.rows[h])
              /\ nz.rows[h]["temperature"] = Round2(RawTemperature(nz.records[i]))
       /\ \A i \in 1..Len(nz.records) :
            \E h \in 1..Len(nz.rows) : CanonKey(nz.rows[h]) = CleanedKey(nz.records[i])
  /\ val.pc = "exited" =>
       \A l \in Labels :
         RangeProblemsOf(l, "temperature") =
           IF Processed(l) /\ OutOfRangeRows # {}
             THEN <<Problem(l, "outside range", "temperature", Cardinality(OutOfRangeRows))>>
             ELSE <<>>

C13_Witness ==
  /\ val.pc = "exited"
  /\ Cardinality(OutOfRangeRows) = 2
  /\ \E h \in OutOfRangeRows : nz.rows[h]["temperature"] = Num(85, 680)
  /\ Processed("CSV")
  /\ Processed("PARQUET")
  /\ Len(RangeProblemsOf("CSV", "temperature")) = 1
  /\ Len(RangeProblemsOf("PARQUET", "temperature")) = 1

\* C14, as stated: a table that lacks a required column makes the Validator
\* fail with an error that names the column and lists the available columns,
\* and no problem is added to the report for that source.
LacksColumn(l) == FileFor(l).exists /\ MissingRequired(FileFor(l).cols) # <<>>

InUnits(v, lo, hi) == v.t = "num" /\ v.n >= lo /\ (v.n < hi \/ (v.n = hi /\ v.m = 0))

CleanBatch(f) ==
  /\ f.exists
  /\ SeqToSet(REQUIRED_COLUMNS) \subseteq SeqToSet(f.cols)
  /\ \A i \in 1..Len(f.rows) :
       /\ f.rows[i]["city"].t = "str"
       /\ InUnits(f.rows[i]["temperature"], -60, 60)
       /\ InUnits(f.rows[i]["humidity_percent"], 0, 100)
       /\ f.rows[i]["humidity_percent"].m = 0
       /\ f.rows[i]["timestamp"].t = "num" /\ f.rows[i]["timestamp"].m = 0
       /\ f.rows[i]["fetched_at"].t = "num" /\ f.rows[i]["fetched_at"].m = 0
  /\ \A i, j \in 1..Len(f.rows) : CanonKey(f.rows[i]) = CanonKey(f.rows[j]) => i = j

NoEarlyFetch(f) ==
  \A i \in 1..Len(f.rows) : f.rows[i]["fetched_at"].n >= f.rows[i]["timestamp"].n

\* C15, as stated: for well-formed batches with no out-of-range, null or
\* duplicate values the problems sequence is empty and the exit signal is
\* success (read here for runs in which both files are read and saved without
\* an I/O failure).
C15_CleanBatchNoProblems ==
  (/\ val.pc = "exited"
   /\ \A l \in Labels : CleanBatch(FileFor(l)) /\ Processed(l))
    => report.problems = <<>> /\ val.code = 0

\* C15, amended: for well-formed batches with no out-of-range, null or
\* duplicate values and no row with fetched_at < timestamp, present as both
\* the CSV and the Parquet file and read and saved without I/O failure, the
\* problems sequence is empty and the exit signal is success.
C15_CleanOrderedBatchNoProblems ==
  (/\ val.pc = "exited"
   /\ \A l \in Labels : CleanBatch(FileFor(l)) /\ NoEarlyFetch(FileFor(l)) /\ Processed(l))
    => report.problems = <<>> /\ val.code = 0

C15_Witness ==
  /\ val.pc = "exited"
  /\ \A l \in Labels : CleanBatch(FileFor(l)) /\ NoEarlyFetch(FileFor(l)) /\ Processed(l)
  /\ Len(files.csv.rows) = 2
  /\ report.problems = <<>>
  /\ val.code = 0

\* C16: the report is written before the exit status is given, whether or not
\* problems were found or a source failed; it holds the problems and
\* summaries collected, and the status is failure exactly when the report's
\* problems sequence is not empty.
C16_ReportBeforeExit ==
  /\ val.pc = "exited" =>
       /\ report.written
       /\ report.problems = val.all_problems
       /\ report.summaries = val.summaries
       /\ val.code \in {0, 1}
       /\ val.code = 1 <=> report.problems # <<>>
  /\ val.pc \in {"idle", "loop"} => ~report.written /\ val.code = 0
  /\ val.pc = "reported" => report.written /\ val.code = 0

C16_Witness ==
  /\ val.pc = "exited"
  /\ report.written
  /\ val.code = 1
  /\ \E k \in 1..Len(report.problems) : report.problems[k].kind = "Exception"
  /\ \E l \in Labels : Processed(l)

\* C17: a failure of a whole source whose file exists (the file cannot be
\* read, or any exception while it is handled) is kept as exactly one problem
\* tagged 'Exception' with that source's label, with no summary for it; the
\* other source is still loaded, coerced and checked, and its problems and
\* summary are in the same report.
SourceFailed(l) == FileFor(l).exists /\ ~Processed(l)

CoercedFile(l) == CoerceDtypes(Load(l, FileFor(l)))

C17_SourceFailureIsOneProblem ==
  val.pc = "exited" =>
    \A l \in Labels :
      /\ (FileFor(l).exists /\ CoercedFile(l).status # "ok") => SourceFailed(l)
      /\ SourceFailed(l) =>
           /\ Len(ProblemsOf(l)) = 1
           /\ ProblemsOf(l)[1].kind = "Exception"
           /\ report.summaries[l] = NoSummary
      /\ (FileFor(l).exists /\ ~SourceFailed(l)) =>
           /\ CoercedFile(l).status = "ok"
           /\ ProblemsOf(l) = RunChecks(CoercedFile(l), l)
           /\ report.summaries[l].present
           /\ report.summaries[l].rows = Len(FileFor(l).rows)
           /\ report.summaries[l].columns = FileFor(l).cols

C17_Witness ==
  /\ val.pc = "exited"
  /\ SourceFailed("CSV")
  /\ CoercedFile("CSV").status = "TypeError"
  /\ Processed("PARQUET")
  /\ Len(ProblemsOf("PARQUET")) >= 2
  /\ report.problems[1].kind = "Exception"

\* C18, as stated: the raw batch with the one Dallas record (temp 300.0,
\* humidity 67) normalizes to one canonical row with temperature 26.85 and
\* humidity_percent 67, the Validator finds no problem, and a skip-existing
\* load into a store without that key inserts exactly one row.
DallasBatch == nz.records = <<JObj(DallasRecord)>>

DallasRow(temperature) ==
  CanonRow(Str(Dallas), temperature, Num(67, 0), Num(1700000000, 0), Num(1700000100, 0))

C18_DallasConvertedAndClean ==
  DallasBatch =>
    /\ nz.pc \in {"cleaned", "csv", "done"} => nz.rows = <<DallasRow(Num(26, 850))>>
    /\ val.pc = "exited" => report.problems = <<>>
    /\ (ld[1].pc = "done" /\ ~ld[1].noSkip) => ld[1].out.inserted = 1

\* C18, amended: the Normalizer converts no units, so the Dallas record
\* normalizes to one canonical row with temperature 300.0 and humidity_percent
\* 67; the Validator reports the temperature as outside its range, once per
\* file checked (and a missing Parquet file when none was written), and exits
\* with failure; a skip-existing load of the CSV file that completes inserts
\* exactly one row, with temperature_c 300.0 and the next id.
C18_DallasEndToEnd ==
  DallasBatch =>
    /\ nz.pc \in {"cleaned", "csv", "done"} => nz.rows = <<DallasRow(Num(300, 0))>>
    /\ val.pc = "exited" =>
         /\ report.problems =
              <<Problem("CSV", "outside range", "temperature", 1),
                IF nz.parquet THEN Problem("PARQUET", "outside range", "temperature", 1)
                ELSE Problem("PARQUET", "Missing file", "", 0)>>
         /\ val.code = 1
    /\ (ld[1].pc = "done" /\ ~ld[1].noSkip) =>
         /\ ld[1].out.total = 1
         /\ ld[1].out.skipped = 0
         /\ ld[1].out.inserted = 1
         /\ store = ld[1].store0 \o
                      <<[city |-> Dallas, temperature_c |-> Num(300, 0),
                         humidity_percent |-> 67, timestamp_unix |-> 1700000000,
                         id |-> Len(ld[1].store0) + 1]>>

C18_Witness ==
  /\ DallasBatch
  /\ nz.parquet
  /\ val.pc = "exited"
  /\ Len(report.problems) = 2
  /\ ld[1].pc = "done"
  /\ ~ld[1].noSkip
  /\ ld[1].store0 # <<>>
  /\ ld[1].out.inserted = 1
  /\ store[Len(store)].city = Dallas

\* C19: every check runs on a source that was handled without exception, and
\* the report lists the problems source by source, CSV before PARQUET, and
\* within a source in the order of the checks: null counts, range, dtype
\* mismatch, duplicate key, fetched_at < timestamp; each check's problems are
\* there whatever the other checks found.
SourceRank(l) == CHOOSE i \in 1..Len(INPUTS) : INPUTS[i].label = l

CheckKinds ==
  <<"nulls", "outside range", "dtype mismatch", "duplicate rows", "fetched_at < timestamp">>

CheckRank(k) == CHOOSE i \in 1..Len(CheckKinds) : CheckKinds[i] = k

KindOf(l, k) == SelectSeq(report.problems, LAMBDA q : q.label = l /\ q.kind = k)

C19_ChecksInOrder ==
  val.pc = "exited" =>
    /\ \A i, j \in 1..Len(report.problems) :
         i < j =>
           /\ SourceRank(report.problems[i].label) <= SourceRank(report.problems[j].label)
           /\ (/\ report.problems[i].label = report.problems[j].label
               /\ Processed(report.problems[i].label))
                => CheckRank(report.problems[i].kind) <= CheckRank(report.problems[j].kind)
    /\ \A l \in Labels :
         Processed(l) =>
           /\ KindOf(l, "nulls") = NullProblems(CoercedFile(l), l)
           /\ KindOf(l, "outside range") = RangeProblems(CoercedFile(l), l)
           /\ KindOf(l, "dtype mismatch") = <<>>
           /\ Len(KindOf(l, "duplicate rows")) =
                IF \E i, j \in 1..Len(FileFor(l).rows) :
                     i < j /\ CanonKey(CoercedFile(l).rows[i]) = CanonKey(CoercedFile(l).rows[j])
                  THEN 1 ELSE 0
           /\ Len(KindOf(l, "fetched_at < timestamp")) =
                IF \E i \in 1..Len(FileFor(l).rows) :
                     /\ CoercedFile(l).rows[i]["fetched_at"].t = "num"
                     /\ CoercedFile(l).rows[i]["timestamp"].t = "num"
                     /\ CoercedFile(l).rows[i]["fetched_at"].n
                          < CoercedFile(l).rows[i]["timestamp"].n
                  THEN 1 ELSE 0
           /\ Len(ProblemsOf(l)) =
                Len(KindOf(l, "nulls")) + Len(KindOf(l, "outside range"))
                  + Len(KindOf(l, "duplicate rows")) + Len(KindOf(l, "fetched_at < timestamp"))

C19_Witness ==
  /\ val.pc = "exited"
  /\ Processed("CSV")
  /\ Processed("PARQUET")
  /\ Len(KindOf("CSV", "outside range")) = 2
  /\ Len(KindOf("CSV", "duplicate rows")) = 1
  /\ Len(KindOf("CSV", "fetched_at < timestamp")) = 1
  /\ Len(ProblemsOf("PARQUET")) >= 1
  /\ report.problems[1].kind = "outside range"
  /\ report.problems[Len(report.problems)].label = "PARQUET"

\* C20, as stated: every row the Loader persists has a city that is not
\* empty after trimming, temperature_c in [-60, 60] and humidity_percent in
\* [0, 100], in both modes.
C20_PersistedRowsInRange ==
  \A i \in 1..Len(store) :
    /\ Strip(store[i].city) # <<>>
    /\ InUnits(store[i].temperature_c, -60, 60)
    /\ store[i].humidity_percent >= 0
    /\ store[i].humidity_percent <= 100

\* C20, amended: every row the Loader persists is made from an input row whose
\* four required fields are non-null after coercion: its city is that row's
\* text with surrounding blanks removed, its temperature_c that row's number,
\* its humidity_percent and timestamp_unix that row's whole numbers; the
\* Loader applies no range to temperature or humidity. This holds in both
\* modes.
C20_PersistedRowsComplete ==
  PastNormalize(1) =>
    \A i \in 1..Len(Gained(1)) :
      \E j \in 1..Len(ld[1].table.rows) :
        LET c == CoerceRow(ld[1].table.cols, ld[1].table.rows[j]) IN
        /\ c.city.t = "str" /\ c.temperature_c.t = "num"
        /\ c.humidity_percent.t = "num" /\ c.timestamp_unix.t = "num"
        /\ c.humidity_percent.m = 0 /\ c.timestamp_unix.m = 0
        /\ Gained(1)[i].city = Strip(ld[1].table.rows[j][CHOOSE k \in DOMAIN ld[1].table.rows[j] :
                                                           RenameCol(k) = "city"].s)
        /\ Gained(1)[i].temperature_c = c.temperature_c
        /\ Gained(1)[i].humidity_percent = c.humidity_percent.n
        /\ Gained(1)[i].timestamp_unix = c.timestamp_unix.n

C20_Witness ==
  /\ ld[1].pc = "done"
  /\ ld[1].out.inserted >= 1
  /\ \E i \in 1..Len(Gained(1)) :
       /\ Gained(1)[i].temperature_c = Num(85, 500)
       /\ Gained(1)[i].city = <<"D">>

\* C21: when an invocation has printed its counts, in skip-existing or in
\* force mode and whatever the store held, total valid rows = skipped +
\* inserted, the rows the store had are still there, and inserted is the number
\* of rows the store gained since the invocation started.
C21_CountsAddUp ==
  ld[1].pc = "done" =>
    /\ ld[1].out.kind = "report"
    /\ ld[1].out.total = Len(ld[1].df)
    /\ ld[1].out.total = ld[1].out.skipped + ld[1].out.inserted
    /\ KeptOld(1)
    /\ ld[1].out.inserted = Len(store) - Len(ld[1].store0)
    /\ (ld[1].noSkip => ld[1].out.skipped = 0)

C21_Witness ==
  /\ ld[1].pc = "done"
  /\ ~ld[1].noSkip
  /\ ld[1].out.inserted >= 1
  /\ ld[1].out.skipped >= 1
  /\ Len(ld[1].store0) >= 2
  /\ Len(ld[1].store0) # ld[1].out.skipped
  /\ Len(store) = Len(ld[1].store0) + ld[1].out.inserted

\* C22: on a store that does not serialize the sessions, when two
\* skip-existing invocations whose batches share a business key absent from
\* the store have both run their existing-key query and neither has committed,
\* both are about to insert that key; and when both have then completed, the
\* store holds two rows with it.
BatchKeys(p) == {Key(ld[p].df[i]) : i \in 1..Len(ld[p].df)}

QueriedNotCommitted(p) == ld[p].queried /\ ld[p].pc \in {"selected", "flushed"}

Selects(p, k) == \E i \in 1..Len(ld[p].to_insert) : Key(ld[p].to_insert[i]) = k

RowsWithKey(st, k) == {i \in 1..Len(st) : Key(st[i]) = k}

C22_ConcurrentWritersDuplicate ==
  ~serialized =>
    \A k \in BatchKeys(1) \cap BatchKeys(2) :
      /\ (QueriedNotCommitted(1) /\ QueriedNotCommitted(2) /\ RowsWithKey(store, k) = {}) =>
           (Selects(1, k) /\ Selects(2, k))
      /\ (ld[1].pc = "done" /\ ld[2].pc = "done" /\ Selects(1, k) /\ Selects(2, k)) =>
           /\ Cardinality(RowsWithKey(store, k)) = 2
           /\ ld[1].out.inserted >= 1
           /\ ld[2].out.inserted >= 1

C22_Witness ==
  /\ ~serialized
  /\ ld[1].pc = "done"
  /\ ld[2].pc = "done"
  /\ ld[1].store0 # <<>>
  /\ UniqueKeys(ld[1].store0)
  /\ UniqueKeys(ld[2].store0)
  /\ \E k \in BatchKeys(1) \cap BatchKeys(2) :
       /\ Selects(1, k)
       /\ Selects(2, k)
       /\ Cardinality(RowsWithKey(store, k)) = 2
  /\ ~UniqueKeys(store)

====
